---- MODULE Spec2Model ----
(***************************************************************************)
(* Model of ignition::gui::Object3DPlugin (src/src/Object3DPlugin.cc) and  *)
(* of the part of ignition::gui::Plugin it relies on                       *)
(* (src/include/ignition/gui/Plugin.hh).                                   *)
(*                                                                         *)
(* The plugin's state is its Qt layout (a sequence of items), the list     *)
(* objs, the engine pointer and the scene name.  The rendering engine is   *)
(* the environment: which engines exist, which scenes exist and which      *)
(* objects the plugin's scene holds.  The pure-virtual hooks Refresh, Add, *)
(* Delete and Change are implemented by subclasses; they are modelled by   *)
(* their documented contract, with their outcomes chosen by the inputs of  *)
(* each handler.  A Qt slot runs to completion on the GUI thread, so each  *)
(* handler is one atomic action.                                           *)
(***************************************************************************)
EXTENDS Integers, Sequences, FiniteSets, TLC

\* ---------------------------------------------------------------- bounds
\* Number of objects the engine ever creates in the plugin's scene.
MaxObjs == 2
\* Number of <insert> elements in the configuration.
MaxInserts == 1

\* ------------------------------------------------------------- universes
None == "none"
EngineNames == {"ogre", "ogre2"}
SceneNames == {"scene", "s1"}
ObjNames == {"a", "b"}
\* objectName of a property widget (the property type) and signal values
Types == {"pose", "color"}
Values == {1, 2}

\* Variant: another default engine name.
DefaultEngineNameOther == "ogre2"

\* std::string engineName{"ogre"}
DefaultEngineName == "ogre"
\* this->sceneName before LoadConfig assigns it
DefaultSceneName == "scene"
\* "3D " + this->typeSingular
DefaultTitle == "3D obj"

\* kDefaultPose: x y z roll pitch yaw
kDefaultPose == [x |-> 0, y |-> 0, z |-> 0, roll |-> 0, pitch |-> 0, yaw |-> 0]
\* kDefaultColor, in tenths: r g b a
kDefaultColor == [r |-> 7, g |-> 7, b |-> 7, a |-> 10]

\* Texts of <pose> and <color>, as the number tokens operator>> reads.
PoseTexts == {<<1, 2, 3, 0, 0, 0>>}
ColorTexts == {<<10, 0, 0, 10>>}

\* istream >> Pose3d
ParsePose(t) ==
  [x |-> t[1], y |-> t[2], z |-> t[3], roll |-> t[4], pitch |-> t[5], yaw |-> t[6]]
\* istream >> Color
ParseColor(t) == [r |-> t[1], g |-> t[2], b |-> t[3], a |-> t[4]]

\* One <insert> element: each child is absent (NoText) or holds a text.
NoText == <<>>
InsertElems == [pose : {NoText} \cup PoseTexts, color : {NoText} \cup ColorTexts]

\* struct ObjInfo, filled from one <insert> element
ObjInfo(e) ==
  [pose |-> IF e.pose # NoText THEN ParsePose(e.pose) ELSE kDefaultPose,
   color |-> IF e.color # NoText THEN ParseColor(e.color) ELSE kDefaultColor]

RECURSIVE SeqsUpTo(_, _)
SeqsUpTo(S, n) ==
  IF n = 0 THEN {<<>>}
  ELSE LET R == SeqsUpTo(S, n - 1)
       IN R \cup {Append(s, e) : s \in {r \in R : Len(r) = n - 1}, e \in S}

\* The <plugin> element handed to Load; elem = FALSE is a null pointer.
Configs ==
  {[elem |-> FALSE, engine |-> None, scene |-> None, inserts |-> <<>>,
    deleteLater |-> FALSE]}
  \cup [elem : {TRUE}, engine : {None} \cup EngineNames,
        scene : {None} \cup SceneNames,
        inserts : SeqsUpTo(InsertElems, MaxInserts), deleteLater : BOOLEAN]

\* ------------------------------------------------------- objects, items
\* rendering::ObjectPtr: identity and Name()
NoObj == [id |-> 0, name |-> ""]
Obj(i, n) == [id |-> i, name |-> n]

Item(k, o, t) == [kind |-> k, obj |-> o, text |-> t]
\* buttonsWidget, holding addButton and refreshButton
ButtonsWidget == Item("buttons", NoObj, <<>>)
\* CollapsibleWidget of one object, holding its property widgets and its
\* deleteButton, whose objName property is the object's name
Collapsible(o) == Item("collapsible", o, <<>>)
Spacer == Item("spacer", NoObj, <<>>)
Label(t) == Item("label", NoObj, t)

EngineError(n) == <<"Engine", n, "not supported, plugin won't work.">>
SceneError(n) == <<"Scene", n, "not found, plugin won't work.">>
DestroyedMsg(n) == <<"Scene", n, "has been destroyed.">>

\* One entry of the trace of calls made by the running handler
Call(f, o, t, v) == [fn |-> f, obj |-> o, type |-> t, value |-> v]
Event(k, n, t, v) == [kind |-> k, objName |-> n, type |-> t, value |-> v]

VARIABLES
  cfg,        \* the configuration element given to the plugin
  engines,    \* names of the render engines rendering::engine() finds
  scenes,     \* names of the scenes the engine holds
  sceneObjs,  \* objects of the plugin's scene, in the engine's order
  nextId,     \* identity of the next object the engine creates
  pc,         \* "init" before LoadConfig, "loaded" after, "crashed"
  title,      \* Plugin::title
  engine,     \* this->engine (None: null)
  sceneName,  \* this->sceneName
  hasLayout,  \* this->layout() != nullptr
  layout,     \* items of the main layout, index 0 first
  objs,       \* this->objs
  event,      \* the event whose handler ran last
  calls,      \* calls made by that handler, in order
  everCalled  \* names of the hooks and slots called so far

vars == <<cfg, engines, scenes, sceneObjs, nextId, pc, title, engine,
          sceneName, hasLayout, layout, objs, event, calls, everCalled>>

\* The part of the state a handler reads and writes, as one record.
Plugin ==
  [engine |-> engine, sceneName |-> sceneName, hasLayout |-> hasLayout,
   layout |-> layout, objs |-> objs, sceneObjs |-> sceneObjs,
   nextId |-> nextId, calls |-> <<>>, crashed |-> FALSE]

Trace(st, c) == [st EXCEPT !.calls = Append(@, c)]

\* engine->SceneByName(sceneName) != nullptr
SceneByName(st) == st.sceneName \in scenes

\* ------------------------------------------------------------ OnRefresh
\* while (mainLayout->count() != 1) takeAt(1): every item but the one at
\* index 0 leaves the layout (collapsibles are deleted, the spacer is not).
RECURSIVE ClearLayout(_)
ClearLayout(l) ==
  IF Len(l) = 1 THEN l
  ELSE ClearLayout(<<l[1]>> \o SubSeq(l, 3, Len(l)))

\* Object3DPlugin::AppendObj
AppendObj(st, o) ==
  LET s1 == Trace(st, Call("AppendObj", o, "", 0))
  IN [s1 EXCEPT !.objs = Append(@, o),
                !.layout = Append(@, Collapsible(o))]

\* Hook Refresh(): calls AppendObj once per object of the scene.
RECURSIVE RefreshFrom(_, _)
RefreshFrom(st, i) ==
  IF i > Len(st.sceneObjs) THEN st
  ELSE RefreshFrom(AppendObj(st, st.sceneObjs[i]), i + 1)

Refresh(st) == RefreshFrom(Trace(st, Call("Refresh", NoObj, "", 0)), 1)

\* Variant: this->objs.clear() is missing.
OnRefreshNoClear(st) ==
  LET s0 == Trace(st, Call("OnRefresh", NoObj, "", 0))
  IN IF st.hasLayout /\ Len(st.layout) = 0
     THEN [s0 EXCEPT !.crashed = TRUE]
     ELSE
       LET l1 == IF st.hasLayout THEN ClearLayout(st.layout)
                 ELSE <<ButtonsWidget>>
           s1 == [s0 EXCEPT !.hasLayout = TRUE, !.layout = l1]
       IN IF ~SceneByName(s1)
          THEN [s1 EXCEPT !.layout =
                  Append(Tail(l1), Label(DestroyedMsg(st.sceneName)))]
          ELSE LET s2 == Refresh(s1)
               IN [s2 EXCEPT !.layout = Append(@, Spacer)]

\* Variant: the button row stays when the scene has been destroyed.
OnRefreshKeepsButtons(st) ==
  LET s0 == Trace(st, Call("OnRefresh", NoObj, "", 0))
  IN IF st.hasLayout /\ Len(st.layout) = 0
     THEN [s0 EXCEPT !.crashed = TRUE]
     ELSE
       LET l1 == IF st.hasLayout THEN ClearLayout(st.layout)
                 ELSE <<ButtonsWidget>>
           s1 == [s0 EXCEPT !.hasLayout = TRUE, !.layout = l1]
       IN IF ~SceneByName(s1)
          THEN [s1 EXCEPT !.layout =
                  Append(l1, Label(DestroyedMsg(st.sceneName)))]
          ELSE LET s2 == Refresh([s1 EXCEPT !.objs = <<>>])
               IN [s2 EXCEPT !.layout = Append(@, Spacer)]

\* Object3DPlugin::OnRefresh
OnRefresh(st) ==
  LET s0 == Trace(st, Call("OnRefresh", NoObj, "", 0))
  IN IF st.hasLayout /\ Len(st.layout) = 0
     THEN \* takeAt(1) returns null and item->widget() dereferences it
          [s0 EXCEPT !.crashed = TRUE]
     ELSE
       LET l1 == IF st.hasLayout THEN ClearLayout(st.layout)
                 ELSE <<ButtonsWidget>>
           s1 == [s0 EXCEPT !.hasLayout = TRUE, !.layout = l1]
       IN IF ~SceneByName(s1)
          THEN [s1 EXCEPT !.layout =
                  Append(Tail(l1), Label(DestroyedMsg(st.sceneName)))]
          ELSE LET s2 == Refresh([s1 EXCEPT !.objs = <<>>])
               IN [s2 EXCEPT !.layout = Append(@, Spacer)]

\* --------------------------------------------------------------- OnAdd
\* Hook Add(): creates at most one object in the scene; n is its name,
\* None when nothing is created.
Add(st, n) ==
  LET o == IF n = None THEN NoObj ELSE Obj(st.nextId, n)
      s1 == Trace(st, Call("Add", o, "", 0))
  IN IF n = None THEN s1
     ELSE [s1 EXCEPT !.sceneObjs = Append(@, o), !.nextId = @ + 1]

\* Variant: the list is rebuilt before the object is added.
OnAddRefreshFirst(st, n) == Add(OnRefresh(st), n)

\* Object3DPlugin::OnAdd
OnAdd(st, n) == OnRefresh(Add(st, n))

\* ------------------------------------------------------------ OnDelete
\* Hook Delete(obj): ok is its return value; on success the object has
\* left the scene.
Delete(st, o, ok) ==
  LET s1 == Trace(st, Call("Delete", o, "", IF ok THEN 1 ELSE 0))
  IN IF ok THEN [s1 EXCEPT !.sceneObjs = SelectSeq(@, LAMBDA x : x # o)]
     ELSE s1

\* Object3DPlugin::OnDelete, from the i-th element of objs on; okIds are
\* the identities for which the hook succeeds.
RECURSIVE OnDeleteFrom(_, _, _, _)
OnDeleteFrom(st, i, objName, okIds) ==
  IF i > Len(st.objs) THEN st
  ELSE LET obj == st.objs[i]
       IN IF obj.name # objName
          THEN OnDeleteFrom(st, i + 1, objName, okIds)
          ELSE IF obj.id \notin okIds
          THEN OnDeleteFrom(Delete(st, obj, FALSE), i + 1, objName, okIds)
          ELSE LET s1 == Delete(st, obj, TRUE)
               IN OnRefresh([s1 EXCEPT !.objs =
                               SelectSeq(@, LAMBDA x : x # obj)])

\* Variant: the loop ends at the first object whose Delete fails.
RECURSIVE OnDeleteStopFrom(_, _, _, _)
OnDeleteStopFrom(st, i, objName, okIds) ==
  IF i > Len(st.objs) THEN st
  ELSE LET obj == st.objs[i]
       IN IF obj.name # objName
          THEN OnDeleteStopFrom(st, i + 1, objName, okIds)
          ELSE IF obj.id \notin okIds
          THEN Delete(st, obj, FALSE)
          ELSE LET s1 == Delete(st, obj, TRUE)
               IN OnRefresh([s1 EXCEPT !.objs =
                               SelectSeq(@, LAMBDA x : x # obj)])

OnDeleteStops(st, objName, okIds) == OnDeleteStopFrom(st, 1, objName, okIds)

OnDelete(st, objName, okIds) == OnDeleteFrom(st, 1, objName, okIds)

\* ------------------------------------------------------------ OnChange
\* Hook Change(obj, type, value): sets a property of the engine object.
Change(st, o, type, value) == Trace(st, Call("Change", o, type, value))

\* Object3DPlugin::OnChange, from the i-th element of objs on
RECURSIVE OnChangeFrom(_, _, _, _, _)
OnChangeFrom(st, i, objName, type, value) ==
  IF i > Len(st.objs) THEN st
  ELSE LET obj == st.objs[i]
       IN IF obj.name # objName
          THEN OnChangeFrom(st, i + 1, objName, type, value)
          ELSE Change(st, obj, type, value)

\* Variant: the loop has no break.
RECURSIVE OnChangeAllFrom(_, _, _, _, _)
OnChangeAllFrom(st, i, objName, type, value) ==
  IF i > Len(st.objs) THEN st
  ELSE LET obj == st.objs[i]
       IN IF obj.name # objName
          THEN OnChangeAllFrom(st, i + 1, objName, type, value)
          ELSE OnChangeAllFrom(Change(st, obj, type, value), i + 1,
                               objName, type, value)

OnChangeAll(st, objName, type, value) ==
  OnChangeAllFrom(st, 1, objName, type, value)

OnChange(st, objName, type, value) == OnChangeFrom(st, 1, objName, type, value)

\* ---------------------------------------------------------- LoadConfig
\* Plugin::DeleteLaterRequested: the delete_later attribute of the
\* configuration, false when it is not given.
DeleteLaterRequested == cfg.elem /\ cfg.deleteLater

\* rendering::engine(engineName): None stands for the null pointer
RenderEngine(n) == IF n \in engines THEN n ELSE None

\* The loop over objInfos of LoadConfig: its body is commented out, so it
\* leaves the scene as it found it.
InsertInitialObjs(st, objInfos) == st

\* Variant: delete_later is looked at after the error message is shown.
LoadConfigLateCheck(st) ==
  LET engineName == IF cfg.elem /\ cfg.engine # None THEN cfg.engine
                    ELSE DefaultEngineName
      sn == IF cfg.elem /\ cfg.scene # None THEN cfg.scene ELSE st.sceneName
      s1 == [st EXCEPT !.sceneName = sn, !.engine = RenderEngine(engineName)]
      error == IF s1.engine = None THEN EngineError(engineName)
               ELSE IF ~SceneByName(s1) THEN SceneError(sn)
               ELSE <<>>
  IN IF error # <<>>
     THEN [s1 EXCEPT !.hasLayout = TRUE, !.layout = <<Label(error)>>]
     ELSE IF DeleteLaterRequested THEN s1
     ELSE OnRefresh(s1)

\* Object3DPlugin::LoadConfig
LoadConfigOn(st) ==
  LET engineName == IF cfg.elem /\ cfg.engine # None THEN cfg.engine
                    ELSE DefaultEngineName
      sn == IF cfg.elem /\ cfg.scene # None THEN cfg.scene ELSE st.sceneName
      objInfos == IF cfg.elem
                  THEN [i \in 1..Len(cfg.inserts) |-> ObjInfo(cfg.inserts[i])]
                  ELSE <<>>
      s1 == [st EXCEPT !.sceneName = sn, !.engine = RenderEngine(engineName)]
      error == IF s1.engine = None THEN EngineError(engineName)
               ELSE IF ~SceneByName(s1) THEN SceneError(sn)
               ELSE <<>>
      s2 == IF error = <<>> THEN InsertInitialObjs(s1, objInfos) ELSE s1
  IN IF DeleteLaterRequested THEN s2
     ELSE IF error # <<>>
     THEN [s2 EXCEPT !.hasLayout = TRUE, !.layout = <<Label(error)>>]
     ELSE OnRefresh(s2)

\* ------------------------------------------------------------- actions
Fns(c) == {c[i].fn : i \in 1..Len(c)}

\* The handler's result becomes the next state.
Commit(st, ev) ==
  /\ engine' = st.engine
  /\ sceneName' = st.sceneName
  /\ hasLayout' = st.hasLayout
  /\ layout' = st.layout
  /\ objs' = st.objs
  /\ sceneObjs' = st.sceneObjs
  /\ nextId' = st.nextId
  /\ calls' = st.calls
  /\ everCalled' = everCalled \cup Fns(st.calls)
  /\ pc' = IF st.crashed THEN "crashed" ELSE "loaded"
  /\ event' = ev
  /\ UNCHANGED <<cfg, engines, scenes>>

\* The state after construction, for a configuration, an engine state and
\* the identity the engine gives the next object it creates.
Constructed(c, e, s, id) ==
  /\ cfg = c
  /\ engines = e
  /\ scenes = s
  /\ sceneObjs = <<>>
  /\ nextId = id
  /\ pc = "init"
  /\ title = ""
  /\ engine = None
  /\ sceneName = DefaultSceneName
  /\ hasLayout = FALSE
  /\ layout = <<>>
  /\ objs = <<>>
  /\ event = Event("init", "", "", 0)
  /\ calls = <<>>
  /\ everCalled = {}

\* Configurations without <engine> and <insert>, kept after loading: no
\* element at all, or an element that names the scene "s1".
PlainConfigs ==
  {c \in Configs : /\ c.engine = None /\ c.inserts = <<>> /\ ~c.deleteLater
                   /\ c.elem => c.scene = "s1"}

\* The plugin's life after loading: few configurations, MaxObjs objects.
Init ==
  \E c \in PlainConfigs, s \in SUBSET SceneNames :
    Constructed(c, {DefaultEngineName}, s, 1)

\* Loading: every configuration and engine state, one object afterwards.
InitConfig ==
  \E c \in Configs, e \in SUBSET EngineNames, s \in SUBSET SceneNames :
    Constructed(c, e, s, MaxObjs)

\* Plugin::Load calls LoadConfig once, when the plugin is created.
LoadConfig ==
  /\ pc = "init"
  /\ title' = IF title = "" THEN DefaultTitle ELSE title
  /\ Commit(LoadConfigOn(Plugin), Event("load", "", "", 0))

\* The widgets that can send a signal are those the layout holds.
HasButtons == \E i \in 1..Len(layout) : layout[i] = ButtonsWidget
Collapsibles == {i \in 1..Len(layout) : layout[i].kind = "collapsible"}

\* addButton clicked
ClickAdd ==
  /\ pc = "loaded" /\ HasButtons
  /\ \E n \in {None} \cup ObjNames :
       /\ n # None => (sceneName \in scenes /\ nextId <= MaxObjs)
       /\ Commit(OnAdd(Plugin, n), Event("add", "", "", 0))
  /\ UNCHANGED title

\* refreshButton clicked
ClickRefresh ==
  /\ pc = "loaded" /\ HasButtons
  /\ Commit(OnRefresh(Plugin), Event("refresh", "", "", 0))
  /\ UNCHANGED title

\* deleteButton of one collapsible clicked
ClickDelete ==
  /\ pc = "loaded"
  /\ \E i \in Collapsibles, okIds \in SUBSET (1..MaxObjs) :
       Commit(OnDelete(Plugin, layout[i].obj.name, okIds),
              Event("delete", layout[i].obj.name, "", 0))
  /\ UNCHANGED title

\* A property widget of one collapsible emits ValueChanged.  Its objName
\* property and its object name are set by the subclass that created it.
ValueChanged ==
  /\ pc = "loaded" /\ Collapsibles # {}
  /\ \E n \in ObjNames, t \in Types, v \in Values :
       Commit(OnChange(Plugin, n, t, v), Event("change", n, t, v))
  /\ UNCHANGED title

\* The environment: other users of the engine create an object in the
\* plugin's scene, destroy the scene, or create it again.
Env(ev) ==
  /\ pc = "loaded"
  /\ event' = Event(ev, "", "", 0)
  /\ calls' = <<>>
  /\ UNCHANGED <<cfg, engines, pc, title, engine, sceneName, hasLayout,
                 layout, objs, everCalled>>

SceneCreateObject ==
  /\ sceneName \in scenes /\ nextId <= MaxObjs
  /\ \E n \in ObjNames : sceneObjs' = Append(sceneObjs, Obj(nextId, n))
  /\ nextId' = nextId + 1
  /\ UNCHANGED scenes
  /\ Env("created")

DestroyScene ==
  /\ sceneName \in scenes
  /\ scenes' = scenes \ {sceneName}
  /\ sceneObjs' = <<>>
  /\ UNCHANGED nextId
  /\ Env("destroyed")

CreateScene ==
  /\ sceneName \notin scenes
  /\ scenes' = scenes \cup {sceneName}
  /\ UNCHANGED <<sceneObjs, nextId>>
  /\ Env("scene")

Next ==
  \/ LoadConfig
  \/ ClickAdd
  \/ ClickRefresh
  \/ ClickDelete
  \/ ValueChanged
  \/ SceneCreateObject
  \/ DestroyScene
  \/ CreateScene

Spec == Init /\ [][Next]_vars

SpecConfig == InitConfig /\ [][Next]_vars

\* -------------------------------------------------------------- claims
CallsTo(f) == SelectSeq(calls, LAMBDA c : c.fn = f)
UserEvents == {"load", "add", "refresh", "delete", "change"}
Matching(l, n) == {i \in 1..Len(l) : l[i].name = n}
Min(S) == CHOOSE i \in S : \A j \in S : i <= j

\* The last handler ran OnRefresh and found the scene alive / destroyed.
RefreshedAlive ==
  pc = "loaded" /\ CallsTo("OnRefresh") # <<>> /\ sceneName \in scenes
RefreshedDestroyed ==
  pc = "loaded" /\ CallsTo("OnRefresh") # <<>> /\ sceneName \notin scenes

\* The objects the Refresh hook passed to AppendObj, in order.
Appended ==
  LET a == CallsTo("AppendObj") IN [i \in 1..Len(a) |-> a[i].obj]

\* C1: after an OnRefresh that found the scene alive, the layout is the
\* button row, one collapsible per object of objs in the order they were
\* appended, then one spacer; objs holds exactly the objects this Refresh
\* appended, none of them twice.
C1_LayoutAfterRefresh ==
  RefreshedAlive =>
    /\ objs = Appended
    /\ \A i, j \in 1..Len(objs) : objs[i] = objs[j] => i = j
    /\ layout = <<ButtonsWidget>>
                \o [i \in 1..Len(objs) |-> Collapsible(objs[i])]
                \o <<Spacer>>

\* A delete that rebuilt a list which earlier refreshes had already built.
C1_Witness ==
  RefreshedAlive /\ event.kind = "delete" /\ Len(objs) >= 1

\* C2: OnDelete tries Delete on the objects of objs named like the clicked
\* button, in order, up to the first success; on a success that object
\* leaves objs and OnRefresh runs once, afterwards; without a success
\* objs and the layout are unchanged and OnRefresh does not run.
C2_Outcome ==
  LET n == event'.objName
      m == SelectSeq(objs, LAMBDA o : o.name = n)
      d == SelectSeq(calls', LAMBDA c : c.fn = "Delete")
      won == {i \in 1..Len(d) : d[i].value = 1}
      r == {i \in 1..Len(calls') : calls'[i].fn = "OnRefresh"}
  IN /\ Len(d) <= Len(m)
     /\ \A i \in 1..Len(d) : d[i].obj = m[i]
     /\ (r # {}) <=> (won # {})
     /\ won # {} =>
          /\ won = {Len(d)}
          /\ \A i \in 1..Len(objs') : objs'[i] # d[Len(d)].obj
          /\ Cardinality(r) = 1
          /\ \A i \in r : calls'[i - 1] = d[Len(d)]
     /\ won = {} =>
          /\ Len(d) = Len(m)
          /\ objs' = objs /\ layout' = layout /\ hasLayout' = hasLayout

C2_DeleteIff == [][event'.kind = "delete" => C2_Outcome]_vars

\* Delete failed for the first object of that name and succeeded for the
\* second.
C2_Witness ==
  /\ event.kind = "delete"
  /\ Len(CallsTo("Delete")) = 2
  /\ CallsTo("Delete")[1].value = 0
  /\ CallsTo("Delete")[2].value = 1

\* The engine and the scene the configuration names.
ConfiguredEngine == IF cfg.elem /\ cfg.engine # None THEN cfg.engine ELSE "ogre"
ConfiguredScene ==
  IF cfg.elem /\ cfg.scene # None THEN cfg.scene ELSE DefaultSceneName

\* The message LoadConfig owes the user for the engine state it meets.
LoadError ==
  IF ConfiguredEngine \notin engines THEN EngineError(ConfiguredEngine)
  ELSE IF ConfiguredScene \notin scenes THEN SceneError(ConfiguredScene)
  ELSE <<>>

ErrorLayouts ==
  {<<Label(EngineError(e))>> : e \in EngineNames}
  \cup {<<Label(SceneError(n))>> : n \in SceneNames}

\* C3: when LoadConfig does not find the configured engine ("ogre" by
\* default) or its scene, and delete_later is not set, the layout holds
\* the error message only, objs is empty and no hook or slot has run; from
\* such a layout no step changes the plugin or calls anything.
C3_Step ==
  /\ (event'.kind = "load" /\ LoadError # <<>> /\ ~(cfg.elem /\ cfg.deleteLater))
       => /\ layout' = <<Label(LoadError)>>
          /\ objs' = <<>>
          /\ everCalled' = {}
  /\ layout \in ErrorLayouts
       => /\ layout' = layout /\ objs' = objs /\ hasLayout' = hasLayout
          /\ everCalled' = {} /\ calls' = <<>>
          /\ event'.kind \notin UserEvents

C3_LoadErrorIsFinal == [][C3_Step]_vars

\* The scene appeared after the failed load; the plugin still shows the
\* error.
C3_Witness ==
  /\ layout = <<Label(SceneError(sceneName))>>
  /\ sceneName \in scenes
  /\ ~cfg.elem

\* C4: DeleteLaterRequested holds only when the configuration sets
\* delete_later; when it holds LoadConfig creates no layout and calls
\* nothing, whatever the engine and scene lookups find.
C4_DeleteLater ==
  /\ DeleteLaterRequested => (cfg.elem /\ cfg.deleteLater)
  /\ (pc # "init" /\ DeleteLaterRequested)
       => /\ ~hasLayout /\ layout = <<>> /\ objs = <<>>
          /\ calls = <<>> /\ everCalled = {}

\* delete_later set and the engine missing.
C4_Witness ==
  pc = "loaded" /\ DeleteLaterRequested /\ engine = None

\* C5: OnAdd calls Add once, then OnRefresh once; with the scene alive
\* the object Add created is in objs and has a collapsible in the layout.
C5_AddThenRefresh ==
  event.kind = "add" =>
    /\ Len(CallsTo("Add")) = 1 /\ Len(CallsTo("OnRefresh")) = 1
    /\ calls[1].fn = "Add" /\ calls[2].fn = "OnRefresh"
    /\ (sceneName \in scenes /\ calls[1].obj # NoObj) =>
         /\ \E i \in 1..Len(objs) : objs[i] = calls[1].obj
         /\ \E i \in 1..Len(layout) : layout[i] = Collapsible(calls[1].obj)

\* Add created a second object.
C5_Witness ==
  event.kind = "add" /\ calls[1].obj # NoObj /\ Len(objs) = 2

\* C6: OnChange calls Change once, on the first object of objs named like
\* the sender, with the sender's object name as type and the value
\* received; on no object when none is named so; objs and the layout stay.
C6_Outcome ==
  LET m == Matching(objs, event'.objName)
  IN /\ objs' = objs /\ layout' = layout /\ hasLayout' = hasLayout
     /\ calls' = IF m = {} THEN <<>>
                 ELSE <<Call("Change", objs[Min(m)], event'.type, event'.value)>>

C6_ChangeFirstMatch == [][event'.kind = "change" => C6_Outcome]_vars

\* Two objects carry the sender's name.
C6_Witness ==
  /\ event.kind = "change" /\ calls # <<>>
  /\ Cardinality(Matching(objs, event.objName)) = 2

\* No object carries the sender's name.
C6_WitnessNoMatch ==
  event.kind = "change" /\ calls = <<>>

\* C7: with the engine and the scene found, LoadConfig inserts one object
\* per <insert> element, so the first list has one entry per element.
C7_OneEntryPerInsert ==
  (event.kind = "load" /\ engine # None /\ sceneName \in scenes
     /\ ~DeleteLaterRequested)
    => Len(sceneObjs) = Len(cfg.inserts) /\ Len(objs) = Len(cfg.inserts)

DestroyedLayouts == {<<Label(DestroyedMsg(n))>> : n \in SceneNames}

\* C8: an OnRefresh that finds the scene destroyed leaves the "has been
\* destroyed" message as the only item and does not call Refresh; from
\* then on no step changes the plugin or calls anything.
C8_Step ==
  /\ RefreshedDestroyed' =>
       /\ layout' = <<Label(DestroyedMsg(sceneName'))>>
       /\ \A i \in 1..Len(calls') : calls'[i].fn \notin {"Refresh", "AppendObj"}
  /\ layout \in DestroyedLayouts =>
       /\ layout' = layout /\ objs' = objs /\ hasLayout' = hasLayout
       /\ calls' = <<>> /\ everCalled' = everCalled
       /\ event'.kind \notin UserEvents

C8_DestroyedIsFinal == [][C8_Step]_vars

\* The scene was created again after the plugin saw it destroyed, with
\* objects still in objs.
C8_Witness ==
  /\ layout \in DestroyedLayouts
  /\ sceneName \in scenes
  /\ Len(objs) >= 1

====
